---- MODULE Spec2Model ----
(***************************************************************************)
(* Zone aggregation engine of the safety-incident reporting server:        *)
(* the report and zone tables, the storage operations on them and the      *)
(* HTTP handlers that call them.  Every `await` of a handler is one step,  *)
(* so that requests interleave exactly where the event loop lets them.     *)
(*                                                                         *)
(* Coordinates are decimal(10,8) strings in the program.  The model keeps  *)
(* them as integers in units of 0.001 degree (28614 is "28.61400000").     *)
(* An absent (NULL) column is the empty sequence, a present one <<v>>.     *)
(***************************************************************************)
EXTENDS Integers, Sequences, FiniteSets, TLC

\* ------------------------------------------------------------------ bounds
MaxReports == 2     \* reports ever inserted
MaxZones == 2       \* zones ever inserted
MaxWrites == 2      \* a request starts only while every zone has fewer writes
NumProcs == 2       \* requests in flight at once
MaxCount == 20      \* largest count handed to the classifier on its own
MaxStored == 3      \* zones in the table when the storage calls start

\* ------------------------------------------------------- program constants
MergeThreshold == 5         \* 0.005 degrees, createOrUpdateZone
RecomputeThreshold == 10    \* 0.01 degrees, getZonesWithReportCounts
DefaultRadius == 100
HighFrom == 15
MediumFrom == 6
CautionFrom == 4

Procs == 1..NumProcs
ReportIds == 1..MaxReports
ZoneIds == 1..MaxZones

NULL == << >>
Some(v) == << v >>
IsNull(x) == x = << >>
Val(x) == x[1]

Abs(x) == IF x < 0 THEN 0 - x ELSE x

\* Number(x) of a column value: Number(null) is 0.
Num(x) == IF IsNull(x) THEN 0 ELSE Val(x)

\* ---------------------------------------------------------------- inputs
\* Positions the requests of the model carry.
\*   latitudes   28614 .. 28615 : 0.001 apart    28615 .. 28619 : 0.004
\*               28614 .. 28619 : exactly 0.005  28619 .. 28624 : exactly 0.005
\*               28615 .. 28624 : 0.009          28614 .. 28624 : exactly 0.010
\*   longitudes  77204 .. 77209 : exactly 0.005
\* Centres POST /api/zones is called with.
Points == { <<28614, 77209>>, <<28615, 77209>>, <<28624, 77204>> }

\* What POST /api/reports stores: a position, or a coordinate absent, with
\* the incident type the zone name is built from.
ReportInputs ==
    { [ latitude |-> Some(28614), longitude |-> Some(77209), incidentType |-> "harassment" ],
      [ latitude |-> Some(28619), longitude |-> Some(77209), incidentType |-> "stalking" ],
      [ latitude |-> Some(28624), longitude |-> Some(77204), incidentType |-> "assault" ],
      [ latitude |-> NULL, longitude |-> Some(77209), incidentType |-> "theft" ],
      [ latitude |-> Some(28614), longitude |-> NULL, incidentType |-> "other" ] }

\* reportCount / riskLevel a POST /api/zones body may carry (the schema omits
\* neither).  The administrator's map click sends reportCount: 0 and no
\* riskLevel, which the column default makes "low".
MapClickSeed == << 0, "low" >>

ZoneSeeds == { MapClickSeed, <<5, "high">> }

ManualZoneName == "Marked Zone"

ZoneName(incidentType) == incidentType \o " Zone"

\* ------------------------------------------------------- Risk classifier
\* The classifier with the map legend's 4-5 band as a tier of its own.
ClassifyCaution(count) ==
    IF count >= HighFrom THEN "high"
    ELSE IF count >= MediumFrom THEN "medium"
    ELSE IF count >= CautionFrom THEN "caution"
    ELSE "low"

\* let riskLevel = 'low'; if (count >= 15) ... else if (count >= 6) ...
\* else if (count >= 4) riskLevel = 'low'
Classify(count) ==
    IF count >= HighFrom THEN "high"
    ELSE IF count >= MediumFrom THEN "medium"
    ELSE IF count >= CautionFrom THEN "low"
    ELSE "low"

\* ------------------------------------------------------------- geometry
\* Math.abs(Number(a) - Number(b)) < 0.005 is evaluated in IEEE-754 binary64.
\* Away from the threshold the rounding error (about 1e-15) cannot change the
\* answer.  At an exact decimal difference of 0.005 it decides it:
\*     28.619 - 28.614 = 0.004999999999999005   (below 0.005)
\*     28.624 - 28.619 = 0.004999999999999005   (below 0.005)
\*     77.209 - 77.204 = 0.005000000000009663   (not below)
\* RoundsBelow lists the pairs of the model's coordinates that are exactly
\* 0.005 apart and whose binary64 difference is below 0.005.
RoundsBelow == { {28614, 28619}, {28619, 28624} }

NumberDiffBelow(a, b) ==
    LET d == Abs(a - b)
    IN  d < MergeThreshold \/ (d = MergeThreshold /\ {a, b} \in RoundsBelow)

\* The test with the longitude difference taken against the candidate's
\* latitude.
MatchesCrossed(zone, data) ==
    /\ NumberDiffBelow(zone.latitude, Num(data.latitude))
    /\ NumberDiffBelow(zone.longitude, Num(data.latitude))

\* The test of createOrUpdateZone's scan.
Matches(zone, data) ==
    /\ NumberDiffBelow(zone.latitude, Num(data.latitude))
    /\ NumberDiffBelow(zone.longitude, Num(data.longitude))

\* ABS(CAST(r AS DECIMAL) - CAST(z AS DECIMAL)) < 0.01 is exact decimal
\* arithmetic; with a NULL operand the comparison is NULL and the row is
\* not selected.
SqlWithin(r, z) == ~IsNull(r) /\ Abs(Val(r) - z) < RecomputeThreshold

\* The count query with the merge radius in place of its own.
ReportsInZoneMergeRadius(rs, zlat, zlng) ==
    { r \in DOMAIN rs :
        /\ rs[r].status = "approved"
        /\ ~IsNull(rs[r].latitude) /\ Abs(Val(rs[r].latitude) - zlat) < MergeThreshold
        /\ ~IsNull(rs[r].longitude) /\ Abs(Val(rs[r].longitude) - zlng) < MergeThreshold }

\* The rows the count(*) query of getZonesWithReportCounts selects.
ReportsInZone(rs, zlat, zlng) ==
    { r \in DOMAIN rs :
        /\ rs[r].status = "approved"
        /\ SqlWithin(rs[r].latitude, zlat)
        /\ SqlWithin(rs[r].longitude, zlng) }

\* ------------------------------------------------------- storage: reports
\* A report row.  id r is the r-th row inserted.
NewReport(input) ==
    [ latitude |-> input.latitude, longitude |-> input.longitude,
      incidentType |-> input.incidentType, status |-> "pending" ]

CreateReport(rs, id, input) ==
    [ r \in DOMAIN rs \cup {id} |-> IF r = id THEN NewReport(input) ELSE rs[r] ]

\* A select that lost its where clause: the first row, whatever the id.
GetReportAnyRow(rs, id) ==
    IF DOMAIN rs = {} THEN NULL
    ELSE Some(rs[CHOOSE r \in DOMAIN rs : \A q \in DOMAIN rs : r <= q])

GetReport(rs, id) == IF id \in DOMAIN rs THEN Some(rs[id]) ELSE NULL

DeleteReport(rs, id) == [ r \in DOMAIN rs \ {id} |-> rs[r] ]

\* UPDATE ... WHERE id = ... RETURNING: no row, no change, undefined returned.
UpdateReportStatus(rs, id, status) ==
    IF id \in DOMAIN rs THEN [ rs EXCEPT ![id].status = status ] ELSE rs

\* --------------------------------------------------------- storage: zones
\* The insert sent through the merge test: a row within the merge threshold
\* takes the increment and no row is added.
CreateUnsafeZoneMerging(zs, id, insertZone) ==
    LET hits == { z \in DOMAIN zs :
                    /\ NumberDiffBelow(zs[z].latitude, insertZone.latitude)
                    /\ NumberDiffBelow(zs[z].longitude, insertZone.longitude) }
    IN  IF hits # {}
        THEN LET hit == CHOOSE z \in hits : \A y \in hits : z <= y
             IN  [ zs EXCEPT ![hit].reportCount = @ + 1,
                             ![hit].riskLevel = Classify(zs[hit].reportCount + 1),
                             ![hit].updatedAt = @ + 1 ]
        ELSE [ z \in DOMAIN zs \cup {id} |->
                 IF z = id
                 THEN [ name |-> insertZone.name,
                        latitude |-> insertZone.latitude,
                        longitude |-> insertZone.longitude,
                        radius |-> insertZone.radius,
                        reportCount |-> insertZone.reportCount,
                        riskLevel |-> insertZone.riskLevel,
                        updatedAt |-> 0 ]
                 ELSE zs[z] ]

\* A zone row.  id z is the z-th row inserted, so createdAt grows with z.
\* updatedAt counts the writes of the row: every write stores a new Date().
CreateUnsafeZone(zs, id, insertZone) ==
    [ z \in DOMAIN zs \cup {id} |->
        IF z = id
        THEN [ name |-> insertZone.name,
               latitude |-> insertZone.latitude,
               longitude |-> insertZone.longitude,
               radius |-> insertZone.radius,
               reportCount |-> insertZone.reportCount,
               riskLevel |-> insertZone.riskLevel,
               updatedAt |-> 0 ]
        ELSE zs[z] ]

\* The count write that adds to the stored count instead of replacing it.
UpdateZoneReportCountAdd(zs, zoneId, count) ==
    IF zoneId \in DOMAIN zs
    THEN [ zs EXCEPT ![zoneId].reportCount = @ + count,
                     ![zoneId].riskLevel = Classify(zs[zoneId].reportCount + count),
                     ![zoneId].updatedAt = @ + 1 ]
    ELSE zs

\* The count write that drops a row whose count has come down to 0.
UpdateZoneReportCountPrune(zs, zoneId, count) ==
    IF zoneId \in DOMAIN zs
    THEN IF count = 0
         THEN [ z \in DOMAIN zs \ {zoneId} |-> zs[z] ]
         ELSE [ zs EXCEPT ![zoneId].reportCount = count,
                          ![zoneId].riskLevel = Classify(count),
                          ![zoneId].updatedAt = @ + 1 ]
    ELSE zs

\* The count write that leaves a row alone when the count is the stored one.
UpdateZoneReportCountIfChanged(zs, zoneId, count) ==
    IF zoneId \in DOMAIN zs /\ zs[zoneId].reportCount # count
    THEN [ zs EXCEPT ![zoneId].reportCount = count,
                     ![zoneId].riskLevel = Classify(count),
                     ![zoneId].updatedAt = @ + 1 ]
    ELSE zs

\* The count write as an upsert: a row that is gone is inserted again.
UpdateZoneReportCountUpsert(zs, zoneId, count) ==
    IF zoneId \in DOMAIN zs
    THEN [ zs EXCEPT ![zoneId].reportCount = count,
                     ![zoneId].riskLevel = Classify(count),
                     ![zoneId].updatedAt = @ + 1 ]
    ELSE [ z \in DOMAIN zs \cup {zoneId} |->
             IF z = zoneId
             THEN [ name |-> ManualZoneName, latitude |-> 0, longitude |-> 0,
                    radius |-> DefaultRadius, reportCount |-> count,
                    riskLevel |-> Classify(count), updatedAt |-> 0 ]
             ELSE zs[z] ]

\* UPDATE unsafe_zones SET report_count, risk_level, updated_at WHERE id:
\* one statement; no row, no change.
UpdateZoneReportCount(zs, zoneId, count) ==
    IF zoneId \in DOMAIN zs
    THEN [ zs EXCEPT ![zoneId].reportCount = count,
                     ![zoneId].riskLevel = Classify(count),
                     ![zoneId].updatedAt = @ + 1 ]
    ELSE zs

DeleteUnsafeZone(zs, id) == [ z \in DOMAIN zs \ {id} |-> zs[z] ]

ZoneRow(zs, z) ==
    [ id |-> z, name |-> zs[z].name, latitude |-> zs[z].latitude,
      longitude |-> zs[z].longitude, radius |-> zs[z].radius,
      reportCount |-> zs[z].reportCount, riskLevel |-> zs[z].riskLevel,
      updatedAt |-> zs[z].updatedAt ]

\* ORDER BY created_at DESC
RECURSIVE ListDesc(_, _)
ListDesc(zs, ids) ==
    IF ids = {} THEN << >>
    ELSE LET top == CHOOSE z \in ids : \A y \in ids : y <= z
         IN  << ZoneRow(zs, top) >> \o ListDesc(zs, ids \ {top})

GetAllUnsafeZones(zs) == ListDesc(zs, DOMAIN zs)

\* db.select().from(unsafeZones) has no ORDER BY: the rows come in whatever
\* order the database produces them, here any order of the ids.
Orders(zs) ==
    { order \in [ 1..Cardinality(DOMAIN zs) -> DOMAIN zs ] :
        \A i, j \in DOMAIN order : i # j => order[i] # order[j] }

\* for (const zone of existingZones) { if (latDiff < 0.005 && lngDiff < 0.005)
\* ... return }: the position of the first row that matches, 0 when none does.
FirstMatch(zs, order, data) ==
    LET hits == { i \in DOMAIN order : Matches(zs[order[i]], data) }
    IN  IF hits = {} THEN 0
        ELSE CHOOSE i \in hits : \A j \in hits : i <= j

\* ------------------------------------------------------------------ state
VARIABLES
    reports,      \* the reports table: id -> row
    zones,        \* the unsafe_zones table: id -> row
    nextReport,   \* id of the next report row
    nextZone,     \* id of the next zone row
    proc,         \* the requests in flight: their position and locals
    counted,      \* history: zone id -> the reports its reportCount stands for
    lastList,     \* history: the list the last GET /api/zones returned, while
                  \* nothing but a recompute has written since
    modal         \* the client's emergency modal: its React state, its timer,
                  \* its requests in flight

vars == << reports, zones, nextReport, nextZone, proc, counted, lastList, modal >>

\* showModal false: EmergencyModal is not rendered.  countdown and
\* isCountingDown are the useState initial values a mount starts from.
\* locating counts the getCurrentPosition requests of the mounted modal that
\* have not called back, orphans those of modals unmounted since.  History:
\* fired counts the triggerEmergency calls since the last startCountdown,
\* byCountdown those the countdown effect made, cancelled tells that Cancel
\* was pressed while that countdown ran.
ModalClosed ==
    [ mounted |-> FALSE, isCountingDown |-> FALSE, countdown |-> 3,
      timer |-> FALSE, isPending |-> FALSE, locating |-> 0, orphans |-> 0,
      fired |-> 0, byCountdown |-> 0, cancelled |-> FALSE ]

NoResp == [ status |-> 0, report |-> NULL, zones |-> << >> ]

IdleProc ==
    [ pc |-> "idle", op |-> "none", id |-> 0, report |-> NULL, match |-> NULL,
      scan |-> << >>, todo |-> {}, cur |-> NULL, count |-> 0, rows |-> {},
      ret |-> NULL, threw |-> FALSE, missed |-> {},
      pre |-> NULL, prev |-> NULL, resp |-> NoResp ]

Init ==
    /\ reports = << >>
    /\ zones = << >>
    /\ nextReport = 1
    /\ nextZone = 1
    /\ proc = [ p \in Procs |-> IdleProc ]
    /\ counted = << >>
    /\ lastList = NULL
    /\ modal = ModalClosed

Idle(p) == proc[p].pc = "idle"

\* The tables as a request finds them, kept (history) where a specification
\* asks for it.
Snapshot(track) ==
    IF track THEN Some([ zones |-> zones, reports |-> reports ]) ELSE NULL

\* Requests that write zone rows start only while the rows' write counters
\* are below the bound.
WritesLeft == \A z \in DOMAIN zones : zones[z].updatedAt < MaxWrites

Respond(status, report, list) ==
    [ status |-> status, report |-> report, zones |-> list ]

\* The coordinate test with the longitude forgotten.
HasLatitude(report) == ~IsNull(report.latitude)

\* report.latitude && report.longitude ("0.00000000" is a non-empty string)
HasCoords(report) == ~IsNull(report.latitude) /\ ~IsNull(report.longitude)

\* latitude and longitude of unsafe_zones are NOT NULL: the insert throws.
InsertRejected(insertZone) ==
    IsNull(insertZone.latitude) \/ IsNull(insertZone.longitude)

\* --------------------------------------------- POST /api/reports (one await)
PostReport(p, input) ==
    /\ Idle(p)
    /\ nextReport <= MaxReports
    /\ reports' = CreateReport(reports, nextReport, input)
    /\ nextReport' = nextReport + 1
    /\ UNCHANGED proc
    /\ lastList' = NULL
    /\ UNCHANGED << zones, nextZone, counted, modal >>

\* ------------------------------------------- DELETE /api/reports/:id
DeleteReportReq(p, id) ==
    /\ Idle(p)
    /\ reports' = DeleteReport(reports, id)
    /\ UNCHANGED proc
    /\ lastList' = NULL
    /\ UNCHANGED << zones, nextReport, nextZone, counted, modal >>

\* ------------------------------------------- PATCH /api/reports/:id/status
PatchStatus(p, id, status) ==
    /\ Idle(p)
    /\ reports' = UpdateReportStatus(reports, id, status)
    /\ UNCHANGED proc
    /\ lastList' = NULL
    /\ UNCHANGED << zones, nextReport, nextZone, counted, modal >>

\* ------------------------------------------------------- POST /api/zones
PostZone(p, pt, seed) ==
    /\ Idle(p)
    /\ nextZone <= MaxZones
    /\ zones' = CreateUnsafeZone(zones, nextZone,
                    [ name |-> ManualZoneName, latitude |-> pt[1],
                      longitude |-> pt[2], radius |-> DefaultRadius,
                      reportCount |-> seed[1], riskLevel |-> seed[2] ])
    /\ nextZone' = nextZone + 1
    /\ counted' = [ z \in DOMAIN zones' |-> IF z = nextZone THEN {} ELSE counted[z] ]
    /\ UNCHANGED proc
    /\ lastList' = NULL
    /\ UNCHANGED << reports, nextReport, modal >>

\* ------------------------------------------------- DELETE /api/zones/:id
DeleteZoneReq(p, id) ==
    /\ Idle(p)
    /\ zones' = DeleteUnsafeZone(zones, id)
    /\ counted' = [ z \in DOMAIN zones' |-> counted[z] ]
    /\ UNCHANGED proc
    /\ lastList' = NULL
    /\ UNCHANGED << reports, nextReport, nextZone, modal >>

\* The response is out; the slot takes the next request.
Finish(p) ==
    /\ proc[p].pc = "done"
    /\ proc' = [ proc EXCEPT ![p] = IdleProc ]
    /\ UNCHANGED << reports, zones, nextReport, nextZone, counted, lastList, modal >>

\* --------------------------------------- PATCH /api/reports/:id/approve
\* await storage.getReport(id); 404 when there is no such row.
ApproveGet(p, id, track) ==
    /\ Idle(p)
    /\ WritesLeft
    /\ LET report == GetReport(reports, id)
       IN  proc' = [ proc EXCEPT ![p] =
                IF IsNull(report)
                THEN [ IdleProc EXCEPT !.pc = "done", !.op = "approve", !.id = id,
                                       !.pre = Snapshot(track),
                                       !.resp = Respond(404, NULL, << >>) ]
                ELSE [ IdleProc EXCEPT !.pc = "approve_update", !.op = "approve",
                                       !.id = id, !.pre = Snapshot(track),
                                       !.report = report ] ]
    /\ UNCHANGED << reports, zones, nextReport, nextZone, counted, lastList, modal >>

\* await storage.updateReportStatus(id, 'approved'); then the coordinate test
\* on the row read before.
ApproveUpdate(p) ==
    /\ proc[p].pc = "approve_update"
    /\ reports' = UpdateReportStatus(reports, proc[p].id, "approved")
    /\ LET updated == GetReport(reports', proc[p].id)
       IN  proc' = [ proc EXCEPT ![p] =
                IF HasCoords(Val(proc[p].report))
                THEN [ @ EXCEPT !.pc = "approve_scan",
                                !.resp = Respond(200, updated, << >>) ]
                ELSE [ @ EXCEPT !.pc = "done",
                                !.resp = Respond(200, updated, << >>) ] ]
    /\ lastList' = NULL
    /\ UNCHANGED << zones, nextReport, nextZone, counted, modal >>

\* createOrUpdateZone: await db.select().from(unsafeZones) and the scan of
\* the rows in the order the query returned them.  The order is kept with
\* the request only when a row matched.
ApproveScan(p) ==
    /\ proc[p].pc = "approve_scan"
    /\ \E order \in Orders(zones) :
         LET data == Val(proc[p].report)
             hit == FirstMatch(zones, order, data)
         IN  IF hit = 0
             THEN proc' = [ proc EXCEPT ![p].pc = "approve_insert" ]
             ELSE proc' = [ proc EXCEPT ![p].pc = "approve_write",
                                        ![p].scan = order,
                                        ![p].match = Some(ZoneRow(zones, order[hit])) ]
    /\ UNCHANGED << reports, zones, nextReport, nextZone, counted, lastList, modal >>

\* await this.updateZoneReportCount(zone.id, (zone.reportCount || 0) + 1);
\* return zone.  The count is the one the scan read; the row returned is the
\* one read too.
ApproveWrite(p) ==
    /\ proc[p].pc = "approve_write"
    /\ LET zone == Val(proc[p].match)
       IN  /\ zones' = UpdateZoneReportCount(zones, zone.id, zone.reportCount + 1)
           /\ counted' = [ z \in DOMAIN zones |->
                             IF z = zone.id THEN counted[z] \cup {proc[p].id}
                             ELSE counted[z] ]
           /\ proc' = [ proc EXCEPT ![p].pc = "done", ![p].ret = Some(zone) ]
    /\ lastList' = NULL
    /\ UNCHANGED << reports, nextReport, nextZone, modal >>

\* await this.createUnsafeZone({... reportCount: 1, riskLevel: 'low'}); an
\* insert the table rejects throws, and the handler's catch answers 500.
ApproveInsert(p) ==
    /\ proc[p].pc = "approve_insert"
    /\ nextZone <= MaxZones
    /\ LET data == Val(proc[p].report)
           insertZone == [ name |-> ZoneName(data.incidentType),
                           latitude |-> data.latitude,
                           longitude |-> data.longitude,
                           radius |-> DefaultRadius,
                           reportCount |-> 1, riskLevel |-> "low" ]
       IN  IF InsertRejected(insertZone)
           THEN /\ proc' = [ proc EXCEPT ![p].pc = "done",
                                         ![p].resp = Respond(500, NULL, << >>) ]
                /\ UNCHANGED << zones, nextZone, counted, lastList >>
           ELSE /\ zones' = CreateUnsafeZone(zones, nextZone,
                               [ insertZone EXCEPT !.latitude = Val(@),
                                                   !.longitude = Val(@) ])
                /\ nextZone' = nextZone + 1
                /\ counted' = [ z \in DOMAIN zones' |->
                                  IF z = nextZone THEN {proc[p].id} ELSE counted[z] ]
                /\ proc' = [ proc EXCEPT ![p].pc = "done",
                                         ![p].ret = Some(ZoneRow(zones', nextZone)) ]
                /\ lastList' = NULL
    /\ UNCHANGED << reports, nextReport, modal >>

\* ----------------------------- GET /api/zones: getZonesWithReportCounts
\* const zones = await db.select().from(unsafeZones)
ListLoad(p, track) ==
    /\ Idle(p)
    /\ WritesLeft
    /\ proc' = [ proc EXCEPT ![p] =
                   [ IdleProc EXCEPT
                       !.pc = IF DOMAIN zones = {} THEN "list_return" ELSE "list_count",
                       !.op = "listZones", !.pre = Snapshot(track),
                       !.todo = { ZoneRow(zones, z) : z \in DOMAIN zones } ] ]
    /\ UNCHANGED << reports, zones, nextReport, nextZone, counted, lastList, modal >>

\* The count(*) query for the next zone of the loaded list.
ListCount(p) ==
    /\ proc[p].pc = "list_count"
    /\ \E zone \in proc[p].todo :
         LET rows == ReportsInZone(reports, zone.latitude, zone.longitude)
         IN  proc' = [ proc EXCEPT ![p].pc = "list_write",
                                   ![p].cur = Some(zone),
                                   ![p].rows = rows,
                                   ![p].count = Cardinality(rows) ]
    /\ UNCHANGED << reports, zones, nextReport, nextZone, counted, lastList, modal >>

\* await this.updateZoneReportCount(zone.id, count).  missed keeps the ids
\* of the zones whose row was gone when the write ran.
ListWrite(p) ==
    /\ proc[p].pc = "list_write"
    /\ LET zone == Val(proc[p].cur)
           rest == proc[p].todo \ {zone}
       IN  /\ zones' = UpdateZoneReportCount(zones, zone.id, proc[p].count)
           /\ counted' = [ z \in DOMAIN zones |->
                             IF z = zone.id THEN proc[p].rows ELSE counted[z] ]
           /\ proc' = [ proc EXCEPT
                          ![p].pc = IF rest = {} THEN "list_return" ELSE "list_count",
                          ![p].todo = rest, ![p].cur = NULL,
                          ![p].rows = {}, ![p].count = 0,
                          ![p].missed = IF zone.id \in DOMAIN zones
                                        THEN @ ELSE @ \cup {zone.id} ]
    /\ UNCHANGED << reports, nextReport, nextZone, lastList, modal >>

\* return await this.getAllUnsafeZones()
ListReturn(p, track) ==
    /\ proc[p].pc = "list_return"
    /\ LET list == GetAllUnsafeZones(zones)
       IN  /\ proc' = [ proc EXCEPT ![p].pc = "done", ![p].prev = lastList,
                                    ![p].resp = Respond(200, NULL, list) ]
           /\ lastList' = IF track THEN Some(list) ELSE NULL
    /\ UNCHANGED << reports, zones, nextReport, nextZone, counted, modal >>

\* ------------------------------------------------------- specifications
Statuses == { "pending", "approved", "resolved" }

\* The handlers, over the request bodies a specification draws from.
Handle(p, reportInputs, points, seeds, track) ==
    \/ \E input \in reportInputs : PostReport(p, input)
    \/ \E id \in ReportIds : DeleteReportReq(p, id)
    \/ \E id \in ReportIds, status \in Statuses : PatchStatus(p, id, status)
    \/ \E pt \in points, seed \in seeds : PostZone(p, pt, seed)
    \/ \E id \in ZoneIds : DeleteZoneReq(p, id)
    \/ \E id \in ReportIds : ApproveGet(p, id, track)
    \/ ApproveUpdate(p)
    \/ ApproveScan(p)
    \/ ApproveWrite(p)
    \/ ApproveInsert(p)
    \/ ListLoad(p, track)
    \/ ListCount(p)
    \/ ListWrite(p)
    \/ ListReturn(p, track)
    \/ Finish(p)

\* One request at a time: each runs to its response before the next starts.
SeqNext == Handle(1, ReportInputs, Points, ZoneSeeds, TRUE)

SeqSpec == Init /\ [][SeqNext]_vars

\* Requests in flight together, interleaved at their awaits: the
\* administrator's approvals, zone listings, zone creations and deletions
\* over a reports table that already holds MaxReports pending reports with
\* coordinates, within reach of each other and of the zone centre.
ConcReportInputs ==
    { r \in ReportInputs : HasCoords(r) /\ Val(r.latitude) < 28624 }

ConcPoints == { pt \in Points : pt[1] = 28615 }

ConcSeeds == { seed \in ZoneSeeds : seed[1] = 0 }

ConcInit ==
    /\ reports \in [ ReportIds -> { NewReport(input) : input \in ConcReportInputs } ]
    /\ zones = << >>
    /\ nextReport = MaxReports + 1
    /\ nextZone = 1
    /\ proc = [ p \in Procs |-> IdleProc ]
    /\ counted = << >>
    /\ lastList = NULL
    /\ modal = ModalClosed

ConcHandle(p) ==
    \/ \E pt \in ConcPoints, seed \in ConcSeeds : PostZone(p, pt, seed)
    \/ \E id \in ZoneIds : DeleteZoneReq(p, id)
    \/ \E id \in ReportIds : ApproveGet(p, id, FALSE)
    \/ ApproveUpdate(p)
    \/ ApproveScan(p)
    \/ ApproveWrite(p)
    \/ ApproveInsert(p)
    \/ ListLoad(p, FALSE)
    \/ ListCount(p)
    \/ ListWrite(p)
    \/ ListReturn(p, FALSE)
    \/ Finish(p)

Next == \E p \in Procs : ConcHandle(p)

Spec == ConcInit /\ [][Next]_vars

\* Approvals and zone deletions in flight together, with no manual zone
\* creation: every zone of the table was created by an approval.
ApprovalHandle(p) ==
    \/ \E id \in ZoneIds : DeleteZoneReq(p, id)
    \/ \E id \in ReportIds : ApproveGet(p, id, FALSE)
    \/ ApproveUpdate(p)
    \/ ApproveScan(p)
    \/ ApproveWrite(p)
    \/ ApproveInsert(p)
    \/ Finish(p)

ApprovalNext == \E p \in Procs : ApprovalHandle(p)

ApprovalSpec == ConcInit /\ [][ApprovalNext]_vars

\* One approval and one zone listing in flight together, each run once, over
\* a table holding one map-click zone and MaxReports pending reports with
\* coordinates.
RaceInit ==
    /\ reports \in [ ReportIds ->
                       { NewReport(input) : input \in { r \in ReportInputs : HasCoords(r) } } ]
    /\ \E pt \in Points :
         zones = CreateUnsafeZone(<< >>, 1,
                     [ name |-> ManualZoneName, latitude |-> pt[1],
                       longitude |-> pt[2], radius |-> DefaultRadius,
                       reportCount |-> MapClickSeed[1],
                       riskLevel |-> MapClickSeed[2] ])
    /\ nextReport = MaxReports + 1
    /\ nextZone = 2
    /\ proc = [ p \in Procs |-> IdleProc ]
    /\ counted = [ z \in {1} |-> {} ]
    /\ lastList = NULL
    /\ modal = ModalClosed

RaceNext ==
    \/ \E id \in ReportIds : ApproveGet(1, id, FALSE)
    \/ ApproveUpdate(1)
    \/ ApproveScan(1)
    \/ ApproveWrite(1)
    \/ ApproveInsert(1)
    \/ ListLoad(2, FALSE)
    \/ ListCount(2)
    \/ ListWrite(2)
    \/ ListReturn(2, FALSE)

RaceSpec == RaceInit /\ [][RaceNext]_vars

\* Zone deletions and one zone listing in flight together, over a table
\* holding MaxZones map-click zones and MaxReports approved reports with
\* coordinates.
DeleteRaceInit ==
    /\ reports \in [ ReportIds ->
                       { [ NewReport(input) EXCEPT !.status = "approved" ] :
                           input \in { r \in ReportInputs : HasCoords(r) } } ]
    /\ \E pts \in [ ZoneIds -> Points ] :
         zones = [ z \in ZoneIds |->
                     CreateUnsafeZone(<< >>, z,
                         [ name |-> ManualZoneName, latitude |-> pts[z][1],
                           longitude |-> pts[z][2], radius |-> DefaultRadius,
                           reportCount |-> MapClickSeed[1],
                           riskLevel |-> MapClickSeed[2] ])[z] ]
    /\ nextReport = MaxReports + 1
    /\ nextZone = MaxZones + 1
    /\ proc = [ p \in Procs |-> IdleProc ]
    /\ counted = [ z \in ZoneIds |-> {} ]
    /\ lastList = NULL
    /\ modal = ModalClosed

DeleteRaceNext ==
    \/ \E id \in ZoneIds : DeleteZoneReq(1, id)
    \/ ListLoad(2, TRUE)
    \/ ListCount(2)
    \/ ListWrite(2)
    \/ ListReturn(2, TRUE)

DeleteRaceSpec == DeleteRaceInit /\ [][DeleteRaceNext]_vars

\* One request at a time, with no manual zone creation: every zone of the
\* table was created by createOrUpdateZone.
MergeOnlyHandle(p) ==
    \/ \E input \in ReportInputs : PostReport(p, input)
    \/ \E id \in ReportIds : DeleteReportReq(p, id)
    \/ \E id \in ReportIds, status \in Statuses : PatchStatus(p, id, status)
    \/ \E id \in ZoneIds : DeleteZoneReq(p, id)
    \/ \E id \in ReportIds : ApproveGet(p, id, TRUE)
    \/ ApproveUpdate(p)
    \/ ApproveScan(p)
    \/ ApproveWrite(p)
    \/ ApproveInsert(p)
    \/ ListLoad(p, TRUE)
    \/ ListCount(p)
    \/ ListWrite(p)
    \/ ListReturn(p, TRUE)
    \/ Finish(p)

MergeOnlyNext == MergeOnlyHandle(1)

MergeOnlySpec == Init /\ [][MergeOnlyNext]_vars

\* ------------------------------------------------------- store failures
\* The positions at which a request waits for a storage call.
AwaitPcs ==
    { "approve_update", "approve_scan", "approve_write", "approve_insert",
      "list_count", "list_write", "list_return" }

\* The awaited storage call rejects (connection lost, statement failed): it
\* changes no row, and the exception leaves the storage method, which has no
\* try of its own, for the handler.  The first call of a handler can reject
\* as well.
StoreThrows(p) ==
    /\ \/ /\ proc[p].pc \in AwaitPcs
          /\ proc' = [ proc EXCEPT ![p].pc = "thrown", ![p].threw = TRUE ]
       \/ /\ Idle(p)
          /\ \E op \in { "approve", "listZones" } :
               proc' = [ proc EXCEPT ![p] =
                           [ IdleProc EXCEPT !.pc = "thrown", !.op = op,
                                             !.threw = TRUE ] ]
    /\ UNCHANGED << reports, zones, nextReport, nextZone, counted, lastList, modal >>

\* A catch that answers as if nothing had happened.
CatchResponseOk(op) == Respond(200, NULL, << >>)

\* catch (error) { console.error(...); res.status(500).json({ message }) }
CatchResponse(op) == Respond(500, NULL, << >>)

Catch(p) ==
    /\ proc[p].pc = "thrown"
    /\ proc' = [ proc EXCEPT ![p].pc = "done",
                             ![p].resp = CatchResponse(proc[p].op) ]
    /\ UNCHANGED << reports, zones, nextReport, nextZone, counted, lastList, modal >>

\* Approvals and zone listings, one request at a time, over MaxReports
\* pending reports with coordinates, with storage calls that may fail.
FaultNext ==
    \/ \E id \in ReportIds : ApproveGet(1, id, FALSE)
    \/ ApproveUpdate(1)
    \/ ApproveScan(1)
    \/ ApproveWrite(1)
    \/ ApproveInsert(1)
    \/ ListLoad(1, FALSE)
    \/ ListCount(1)
    \/ ListWrite(1)
    \/ ListReturn(1, FALSE)
    \/ StoreThrows(1)
    \/ Catch(1)
    \/ Finish(1)

FaultSpec == ConcInit /\ [][FaultNext]_vars

\* The count write of the storage interface on its own, over every count up
\* to MaxCount, on a table holding one zone.
ClassifyInit ==
    /\ reports = << >>
    /\ \E pt \in Points, seed \in ZoneSeeds :
         zones = CreateUnsafeZone(<< >>, 1,
                     [ name |-> ManualZoneName, latitude |-> pt[1],
                       longitude |-> pt[2], radius |-> DefaultRadius,
                       reportCount |-> seed[1], riskLevel |-> seed[2] ])
    /\ nextReport = 1
    /\ nextZone = 2
    /\ proc = [ p \in Procs |-> IdleProc ]
    /\ counted = [ z \in {1} |-> {} ]
    /\ lastList = NULL
    /\ modal = ModalClosed

CountWrite(zoneId, count) ==
    /\ zoneId \in DOMAIN zones
    /\ zones[zoneId].updatedAt < MaxWrites
    /\ zones' = UpdateZoneReportCount(zones, zoneId, count)
    /\ UNCHANGED << reports, nextReport, nextZone, proc, counted, lastList, modal >>

ClassifyNext == \E zoneId \in ZoneIds, count \in 0..MaxCount : CountWrite(zoneId, count)

ClassifySpec == ClassifyInit /\ [][ClassifyNext]_vars

\* createOrUpdateZone as the storage interface offers it, called without the
\* approval route's coordinate test, one call at a time, on a table that
\* earlier POST /api/zones requests filled with up to MaxStored zones.
StorePoints == Points \cup { <<0, 77209>> }

StoreInit ==
    /\ reports = << >>
    /\ \E k \in 0..MaxStored :
         \E pts \in [ 1..k -> StorePoints ] :
            zones = [ z \in 1..k |->
                        CreateUnsafeZone(<< >>, z,
                            [ name |-> ManualZoneName, latitude |-> pts[z][1],
                              longitude |-> pts[z][2], radius |-> DefaultRadius,
                              reportCount |-> MapClickSeed[1],
                              riskLevel |-> MapClickSeed[2] ])[z] ]
    /\ nextReport = 1
    /\ nextZone = Cardinality(DOMAIN zones) + 1
    /\ proc = [ p \in Procs |-> IdleProc ]
    /\ counted = [ z \in DOMAIN zones |-> {} ]
    /\ lastList = NULL
    /\ modal = ModalClosed

\* storage.createOrUpdateZone({ name: `${incidentType} Zone`, latitude,
\* longitude, radius: 100 }): the call enters at the select.
MergeCall(p, data) ==
    /\ Idle(p)
    /\ WritesLeft
    /\ proc' = [ proc EXCEPT ![p] =
                   [ IdleProc EXCEPT !.pc = "approve_scan",
                                     !.op = "createOrUpdateZone",
                                     !.pre = Snapshot(TRUE),
                                     !.report = Some(data) ] ]
    /\ UNCHANGED << reports, zones, nextReport, nextZone, counted, lastList, modal >>

StoreNext ==
    \/ \E data \in ReportInputs : MergeCall(1, data)
    \/ ApproveScan(1)
    \/ ApproveWrite(1)
    \/ ApproveInsert(1)
    \/ Finish(1)

StoreSpec == StoreInit /\ [][StoreNext]_vars

\* ------------------------------------------------- the emergency modal
\* The most getCurrentPosition requests in flight at a time.
MaxTriggers == 3

\* onClose(): setShowModal(false) stops rendering EmergencyModal.  Its state
\* is dropped, the effect's cleanup clears the timer, and the position
\* requests it made call back into a component that is gone.
UnmountedKeepTimer(m) ==
    [ m EXCEPT !.mounted = FALSE, !.isCountingDown = FALSE, !.countdown = 3,
               !.isPending = FALSE,
               !.orphans = @ + m.locating, !.locating = 0 ]

Unmounted(m) ==
    [ m EXCEPT !.mounted = FALSE, !.isCountingDown = FALSE, !.countdown = 3,
               !.timer = FALSE, !.isPending = FALSE,
               !.orphans = @ + m.locating, !.locating = 0 ]

\* triggerEmergency(): with navigator.geolocation the actions wait for the
\* position callback; without it executeEmergencyActions runs at once and
\* ends in emergencyMutation.mutate.
TriggerEmergency(m, supported, countdownCall) ==
    [ m EXCEPT !.fired = @ + 1,
               !.byCountdown = IF countdownCall THEN @ + 1 ELSE @,
               !.locating = IF supported THEN @ + 1 ELSE @,
               !.isPending = IF supported THEN @ ELSE TRUE ]

CanTrigger == modal.locating + modal.orphans < MaxTriggers /\ modal.fired < MaxTriggers

\* The emergency button: onClick={() => setShowModal(true)}
OpenModal ==
    /\ ~modal.mounted
    /\ modal' = [ modal EXCEPT !.mounted = TRUE ]
    /\ UNCHANGED << reports, zones, nextReport, nextZone, proc, counted, lastList >>

\* "Activate Emergency": setIsCountingDown(true); setCountdown(3); the effect
\* then sets the one-second timer.
StartCountdown ==
    /\ modal.mounted
    /\ ~modal.isCountingDown
    /\ modal' = [ modal EXCEPT !.isCountingDown = TRUE, !.countdown = 3,
                               !.timer = TRUE,
                               !.fired = 0, !.byCountdown = 0, !.cancelled = FALSE ]
    /\ UNCHANGED << reports, zones, nextReport, nextZone, proc, counted, lastList >>

\* The timer's callback, setCountdown(countdown - 1), and the effect of the
\* render it causes: a new timer while the countdown is above 0, otherwise
\* triggerEmergency() and setIsCountingDown(false).
TimerFires ==
    /\ modal.mounted
    /\ modal.timer
    /\ IF modal.countdown - 1 > 0
       THEN modal' = [ modal EXCEPT !.countdown = @ - 1 ]
       ELSE /\ CanTrigger
            /\ \E supported \in BOOLEAN :
                 modal' = [ TriggerEmergency(modal, supported, TRUE) EXCEPT
                              !.countdown = 0, !.timer = FALSE,
                              !.isCountingDown = FALSE ]
    /\ UNCHANGED << reports, zones, nextReport, nextZone, proc, counted, lastList >>

\* "Activate Now": onClick={triggerEmergency}, disabled while the mutation
\* is pending.  Nothing else is set: the countdown goes on.
ActivateNow ==
    /\ modal.mounted
    /\ modal.isCountingDown
    /\ ~modal.isPending
    /\ CanTrigger
    /\ \E supported \in BOOLEAN :
         modal' = TriggerEmergency(modal, supported, FALSE)
    /\ UNCHANGED << reports, zones, nextReport, nextZone, proc, counted, lastList >>

\* A getCurrentPosition callback (success or error) of the mounted modal:
\* executeEmergencyActions, which ends in emergencyMutation.mutate.
GeolocationReturns ==
    /\ modal.locating > 0
    /\ modal' = [ modal EXCEPT !.locating = @ - 1, !.isPending = TRUE ]
    /\ UNCHANGED << reports, zones, nextReport, nextZone, proc, counted, lastList >>

\* The same callback for a modal that has been unmounted: the actions run,
\* no state of the mounted modal changes.
OrphanReturns ==
    /\ modal.orphans > 0
    /\ modal' = [ modal EXCEPT !.orphans = @ - 1 ]
    /\ UNCHANGED << reports, zones, nextReport, nextZone, proc, counted, lastList >>

\* The mutation settles: onSuccess toasts and calls onClose(); onError
\* toasts.
MutationSettles(ok) ==
    /\ modal.mounted
    /\ modal.isPending
    /\ modal' = IF ok THEN Unmounted(modal)
                ELSE [ modal EXCEPT !.isPending = FALSE ]
    /\ UNCHANGED << reports, zones, nextReport, nextZone, proc, counted, lastList >>

\* handleCancel: setIsCountingDown(false); setCountdown(3); onClose().
HandleCancel ==
    /\ modal.mounted
    /\ modal' = [ Unmounted([ modal EXCEPT !.isCountingDown = FALSE,
                                           !.countdown = 3 ])
                    EXCEPT !.cancelled = modal.isCountingDown /\ modal.countdown > 0 ]
    /\ UNCHANGED << reports, zones, nextReport, nextZone, proc, counted, lastList >>

\* <Dialog onOpenChange={onClose}>: the dialog is dismissed.
Dismiss ==
    /\ modal.mounted
    /\ modal' = Unmounted(modal)
    /\ UNCHANGED << reports, zones, nextReport, nextZone, proc, counted, lastList >>

ModalNext ==
    \/ OpenModal
    \/ StartCountdown
    \/ TimerFires
    \/ ActivateNow
    \/ GeolocationReturns
    \/ OrphanReturns
    \/ \E ok \in BOOLEAN : MutationSettles(ok)
    \/ HandleCancel
    \/ Dismiss

ModalSpec == Init /\ [][ModalNext]_vars

\* ------------------------------------------------------------------ claims
DoneApprove(p) == proc[p].pc = "done" /\ proc[p].op = "approve"
DoneList(p) == proc[p].pc = "done" /\ proc[p].op = "listZones"
Pre(p) == Val(proc[p].pre)
Merged(p) == DoneApprove(p) /\ ~IsNull(proc[p].match)

\* Both coordinates of the candidate strictly less than 0.005 from the zone's.
StrictlyNear(zone, lat, lng) ==
    Abs(zone.latitude - lat) < MergeThreshold /\ Abs(zone.longitude - lng) < MergeThreshold

\* C1: NumProcs approvals of distinct reports that all merged into the same
\* zone, with no other write of that zone since the first of them read it,
\* leave the zone's reportCount at the count first read plus NumProcs.
C1_NoLostUpdate ==
    \A z \in DOMAIN zones :
        ( /\ \A p \in Procs : Merged(p) /\ Val(proc[p].match).id = z
          /\ \A p, q \in Procs : p # q => proc[p].id # proc[q].id )
        => LET first == CHOOSE p \in Procs :
                            \A q \in Procs :
                                Val(proc[p].match).updatedAt <= Val(proc[q].match).updatedAt
               read == Val(proc[first].match)
           IN  zones[z].updatedAt = read.updatedAt + NumProcs
                   => zones[z].reportCount = read.reportCount + NumProcs

\* C2: every report a zone's reportCount stands for exists and is approved.
C2_OnlyApprovedCounted ==
    \A z \in DOMAIN zones :
        \A r \in counted[z] :
            r \in DOMAIN reports /\ reports[r].status = "approved"

\* C3: every stored zone's riskLevel is the classifier's tier of its own
\* reportCount.
C3_RiskLevelDerived ==
    \A z \in DOMAIN zones : zones[z].riskLevel = Classify(zones[z].reportCount)

\* C4: when a recompute has returned, every zone stored and every zone of the
\* returned list carries the number of approved reports strictly less than
\* 0.01 from it on both axes.
TrueCount(zone) ==
    Cardinality({ r \in DOMAIN reports :
        /\ reports[r].status = "approved"
        /\ ~IsNull(reports[r].latitude) /\ ~IsNull(reports[r].longitude)
        /\ Abs(Val(reports[r].latitude) - zone.latitude) < RecomputeThreshold
        /\ Abs(Val(reports[r].longitude) - zone.longitude) < RecomputeThreshold })

Derived(list) ==
    { << list[i].id, list[i].reportCount, list[i].riskLevel >> : i \in 1..Len(list) }

C5_RecomputeIdempotent ==
    \A p \in Procs :
        (DoneList(p) /\ ~IsNull(proc[p].prev))
            => Derived(proc[p].resp.zones) = Derived(Val(proc[p].prev))

C5_Witness ==
    \E p \in Procs :
        /\ DoneList(p) /\ ~IsNull(proc[p].prev)
        /\ \E z \in DOMAIN zones :
             zones[z].reportCount >= 1 /\ zones[z].updatedAt >= 2

\* The candidate an approval hands to createOrUpdateZone.
Candidate(p) == Val(proc[p].report)
CandLat(p) == Val(Candidate(p).latitude)
CandLng(p) == Val(Candidate(p).longitude)
CalledMerge(p) ==
    /\ DoneApprove(p) /\ ~IsNull(proc[p].pre) /\ ~IsNull(proc[p].report)
    /\ ~IsNull(Candidate(p).latitude) /\ ~IsNull(Candidate(p).longitude)

\* C6: a candidate strictly less than 0.005 on both axes from some zone that
\* existed at the call leaves the number of zones unchanged and one such zone
\* with its reportCount one higher and its riskLevel the tier of that count.
C6_MergeIncrementsNearZone ==
    \A p \in Procs :
        CalledMerge(p) =>
            LET near == { z \in DOMAIN Pre(p).zones :
                            StrictlyNear(Pre(p).zones[z], CandLat(p), CandLng(p)) }
            IN  near # {} =>
                    /\ DOMAIN zones = DOMAIN Pre(p).zones
                    /\ \E z \in near :
                         /\ zones[z].reportCount = Pre(p).zones[z].reportCount + 1
                         /\ zones[z].riskLevel = Classify(zones[z].reportCount)

\* C7: a candidate that is 0.005 or more on some axis from every zone that
\* existed at the call adds exactly one zone, with the candidate's name and
\* coordinates, reportCount 1, riskLevel low and radius 100, and leaves every
\* existing zone as it was.
C7_NoMatchCreatesZone ==
    \A p \in Procs :
        ( /\ CalledMerge(p)
          /\ \A z \in DOMAIN Pre(p).zones :
               ~StrictlyNear(Pre(p).zones[z], CandLat(p), CandLng(p)) )
        => /\ \A z \in DOMAIN Pre(p).zones : z \in DOMAIN zones /\ zones[z] = Pre(p).zones[z]
           /\ Cardinality(DOMAIN zones \ DOMAIN Pre(p).zones) = 1
           /\ \A z \in DOMAIN zones \ DOMAIN Pre(p).zones :
                zones[z] = [ name |-> ZoneName(Candidate(p).incidentType),
                             latitude |-> CandLat(p), longitude |-> CandLng(p),
                             radius |-> 100, reportCount |-> 1,
                             riskLevel |-> "low", updatedAt |-> 0 ]

\* C8: the approval of an existing report that lacks a coordinate answers 200,
\* leaves the report approved and leaves the zones table as it found it.
C8_NoCoordsApproval ==
    \A p \in Procs :
        ( /\ DoneApprove(p) /\ ~IsNull(proc[p].pre)
          /\ proc[p].id \in DOMAIN Pre(p).reports
          /\ \/ IsNull(Pre(p).reports[proc[p].id].latitude)
             \/ IsNull(Pre(p).reports[proc[p].id].longitude) )
        => /\ proc[p].resp.status = 200
           /\ proc[p].id \in DOMAIN reports
           /\ reports[proc[p].id].status = "approved"
           /\ ~IsNull(proc[p].resp.report)
           /\ Val(proc[p].resp.report).status = "approved"
           /\ zones = Pre(p).zones

C8_Witness ==
    \E p \in Procs :
        /\ DoneApprove(p) /\ ~IsNull(proc[p].pre)
        /\ proc[p].id \in DOMAIN Pre(p).reports
        /\ ~IsNull(Pre(p).reports[proc[p].id].latitude)
        /\ IsNull(Pre(p).reports[proc[p].id].longitude)
        /\ Pre(p).reports[proc[p].id].status = "pending"
        /\ DOMAIN zones # {}

\* C9: the approval of an id the reports table does not hold answers 404 and
\* leaves the reports and the zones tables as it found them.
C9_ApproveNotFound ==
    \A p \in Procs :
        ( /\ DoneApprove(p) /\ ~IsNull(proc[p].pre)
          /\ proc[p].id \notin DOMAIN Pre(p).reports )
        => /\ proc[p].resp.status = 404
           /\ reports = Pre(p).reports
           /\ zones = Pre(p).zones

C9_Witness ==
    \E p \in Procs :
        /\ DoneApprove(p) /\ ~IsNull(proc[p].pre)
        /\ proc[p].id \notin DOMAIN Pre(p).reports
        /\ \E r \in DOMAIN reports : HasCoords(reports[r]) /\ reports[r].status = "pending"
        /\ DOMAIN zones # {}

\* C10: every count write stores one of the three tiers: high from 15 up,
\* medium from 6 to 14, low below 6 (4 and 5 included).
C10_ClassifierTiers ==
    \A z \in DOMAIN zones :
        zones[z].updatedAt > 0 =>
            LET count == zones[z].reportCount
                tier == zones[z].riskLevel
            IN  /\ count >= 0
                /\ tier \in { "low", "medium", "high" }
                /\ count >= 15 => tier = "high"
                /\ (6 <= count /\ count < 15) => tier = "medium"
                /\ count < 6 => tier = "low"

C10_Witness ==
    \E z \in DOMAIN zones :
        zones[z].updatedAt > 0 /\ zones[z].reportCount = 5 /\ zones[z].riskLevel = "low"

\* The tiers in their order low < medium < high.
Rank(tier) ==
    CASE tier = "low" -> 1
      [] tier = "medium" -> 2
      [] tier = "high" -> 3
      [] OTHER -> 0

ClassifyMonotone ==
    \A a, b \in 0..MaxCount : a <= b => Rank(Classify(a)) <= Rank(Classify(b))

\* The step of a request that writes the incremented count of the zone its
\* scan matched.
MergeStep(p) == proc[p].pc = "approve_write" /\ proc'[p].pc = "done"

\* C11: the classifier is monotone in the count, and no merge-on-approval
\* increment leaves the zone it writes with a lower riskLevel than the zone
\* had stored before the write.
C11_MergeNeverLowersTier ==
    [][ /\ ClassifyMonotone
        /\ \A p \in Procs :
             MergeStep(p) =>
                 LET z == Val(proc[p].match).id
                 IN  z \in DOMAIN zones =>
                        Rank(zones'[z].riskLevel) >= Rank(zones[z].riskLevel) ]_vars

\* C12: the zone record a merging createOrUpdateZone returns carries the
\* reportCount and riskLevel stored for that zone after the increment.
C12_MergeReturnsStoredRow ==
    \A p \in Procs :
        ( /\ proc[p].pc = "done" /\ ~IsNull(proc[p].match) /\ ~IsNull(proc[p].ret)
          /\ Val(proc[p].ret).id \in DOMAIN zones )
        => LET ret == Val(proc[p].ret)
           IN  /\ ret.reportCount = zones[ret.id].reportCount
               /\ ret.riskLevel = zones[ret.id].riskLevel

DoneMergeCall(p) == proc[p].pc = "done" /\ proc[p].op = "createOrUpdateZone"

\* C13: a call whose candidate is strictly less than 0.005 on both axes from
\* two or more zones increments the first of those zones in the order the
\* scan listed them, and leaves every other zone, and the number of zones,
\* as the call found them.
C13_FirstMatchWins ==
    \A p \in Procs :
        ( /\ DoneMergeCall(p)
          /\ ~IsNull(Candidate(p).latitude) /\ ~IsNull(Candidate(p).longitude) )
        => LET near == { z \in DOMAIN Pre(p).zones :
                           StrictlyNear(Pre(p).zones[z], CandLat(p), CandLng(p)) }
               scan == proc[p].scan
           IN  Cardinality(near) >= 2 =>
                 /\ scan \in Orders(Pre(p).zones)
                 /\ LET at == CHOOSE i \in DOMAIN scan :
                                 /\ scan[i] \in near
                                 /\ \A j \in DOMAIN scan : scan[j] \in near => i <= j
                        first == scan[at]
                    IN  /\ DOMAIN zones = DOMAIN Pre(p).zones
                        /\ zones[first].reportCount = Pre(p).zones[first].reportCount + 1
                        /\ \A z \in DOMAIN zones \ {first} : zones[z] = Pre(p).zones[z]

\* C14: a call whose candidate lacks a coordinate throws and leaves the
\* zones table as it found it.
C14_NoCoordsCallFails ==
    \A p \in Procs :
        ( /\ DoneMergeCall(p)
          /\ \/ IsNull(Candidate(p).latitude)
             \/ IsNull(Candidate(p).longitude) )
        => /\ proc[p].resp.status = 500
           /\ zones = Pre(p).zones

\* C15: a step that takes a zone out of the zones table is a DELETE
\* /api/zones/:id request; no approval, recompute, report deletion or report
\* status change removes a zone, whatever its count.
C15_OnlyDeleteRemovesZone ==
    [][ (\E z \in DOMAIN zones : z \notin DOMAIN zones')
            => \E p \in Procs, id \in ZoneIds : DeleteZoneReq(p, id) ]_vars

\* A recompute has returned with a zone that an approval created (seeded
\* with 1) and that now counts 0.
C15_Witness ==
    \E p \in Procs :
        /\ DoneList(p)
        /\ \E z \in DOMAIN zones :
             /\ zones[z].name # ManualZoneName
             /\ zones[z].reportCount = 0
             /\ zones[z].updatedAt >= 1

\* The step of a POST /api/zones request: a zone id is used up and no
\* request is in flight before or after.
ManualCreateStep == nextZone' = nextZone + 1 /\ proc' = proc

\* C16: a manual zone creation adds the one zone with the next id and leaves
\* every zone that existed as it was, wherever the new centre lies; the zone
\* the map click creates has reportCount 0.
C16_ManualCreateAddsOne ==
    [][ ManualCreateStep =>
          /\ nextZone \notin DOMAIN zones
          /\ DOMAIN zones' = DOMAIN zones \cup {nextZone}
          /\ \A z \in DOMAIN zones : zones'[z] = zones[z]
          /\ (\E p \in Procs, pt \in Points : PostZone(p, pt, MapClickSeed))
                => zones'[nextZone].reportCount = 0 ]_vars

\* A map-click zone stands strictly less than 0.005 on both axes from an
\* older zone that counts reports.
C16_Witness ==
    \E z1, z2 \in DOMAIN zones :
        /\ z1 < z2
        /\ zones[z2].name = ManualZoneName
        /\ zones[z2].reportCount = 0 /\ zones[z2].updatedAt = 0
        /\ StrictlyNear(zones[z1], zones[z2].latitude, zones[z2].longitude)
        /\ zones[z1].reportCount >= 1

\* C17: a manually created zone that no merge and no recompute has written
\* has reportCount 0 and riskLevel low, whatever the request carried.
C17_ManualSeedOnly ==
    \A z \in DOMAIN zones :
        (zones[z].name = ManualZoneName /\ zones[z].updatedAt = 0)
            => zones[z].reportCount = 0 /\ zones[z].riskLevel = "low"

\* C18: no two distinct zones of the table have centres strictly less than
\* 0.005 apart on both latitude and longitude.
C18_NoOverlappingZones ==
    \A z1, z2 \in DOMAIN zones :
        z1 # z2 => ~StrictlyNear(zones[z1], zones[z2].latitude, zones[z2].longitude)

\* The counts the two serial orders of an approval of the pending report r
\* that merges into zone z and a recompute leave in z: the recompute last
\* stores the true count; the approval last adds 1 to the recompute's count of
\* the other reports.
SerialCounts(z, r) ==
    { TrueCount(zones[z]),
      Cardinality(ReportsInZone(reports, zones[z].latitude, zones[z].longitude) \ {r}) + 1 }

\* C19: when an approval that merged into a zone and a recompute have both
\* completed, the zone's reportCount is one that the approval followed by the
\* recompute, or the recompute followed by the approval, leaves.
C19_RecomputeMergeSerial ==
    \A p, q \in Procs :
        (Merged(p) /\ DoneList(q))
            => LET z == Val(proc[p].match).id
               IN  zones[z].reportCount \in SerialCounts(z, proc[p].id)

\* C20: when a recompute has returned, every zone it loaded has had its
\* updatedAt written once more, also a zone whose count is the one it had,
\* and carries the tier of its count;
\* every zone's name, latitude, longitude and radius, the set of zone ids and
\* the reports table are as the recompute found them.
C20_RecomputeFrame ==
    \A p \in Procs :
        (DoneList(p) /\ ~IsNull(proc[p].pre)) =>
            /\ reports = Pre(p).reports
            /\ DOMAIN zones = DOMAIN Pre(p).zones
            /\ \A z \in DOMAIN zones :
                 /\ zones[z].name = Pre(p).zones[z].name
                 /\ zones[z].latitude = Pre(p).zones[z].latitude
                 /\ zones[z].longitude = Pre(p).zones[z].longitude
                 /\ zones[z].radius = Pre(p).zones[z].radius
                 /\ zones[z].updatedAt = Pre(p).zones[z].updatedAt + 1
                 /\ zones[z].riskLevel = Classify(zones[z].reportCount)

\* A recompute has returned over two zones, one whose count it changed and
\* one whose count it found right, with a report in the table.
C20_Witness ==
    \E p \in Procs :
        /\ DoneList(p) /\ ~IsNull(proc[p].pre)
        /\ DOMAIN reports # {}
        /\ \E z1, z2 \in DOMAIN zones :
             /\ zones[z1].reportCount = Pre(p).zones[z1].reportCount
             /\ zones[z1].riskLevel = Pre(p).zones[z1].riskLevel
             /\ zones[z1].updatedAt = Pre(p).zones[z1].updatedAt + 1
             /\ zones[z2].reportCount # Pre(p).zones[z2].reportCount

\* C21: a recompute that finds a zone whose stored reportCount is not the
\* number of approved reports within 0.01 of it on both axes changes that
\* zone's reportCount; approvals alone lead to such a zone (C21_Witness).
C21_RecomputeCorrectsDrift ==
    \A p \in Procs :
        (DoneList(p) /\ ~IsNull(proc[p].pre)) =>
            \A z \in DOMAIN Pre(p).zones :
                Pre(p).zones[z].reportCount # TrueCount(Pre(p).zones[z])
                    => /\ z \in DOMAIN zones
                       /\ zones[z].reportCount # Pre(p).zones[z].reportCount

\* A recompute has returned that started on a table built by approvals
\* alone: every report approved, every zone as the approval of one report
\* created it and never written since.  It found a zone whose count was not
\* the number of approved reports within 0.01 of it, and changed the count.
C21_Witness ==
    \E p \in Procs :
        /\ DoneList(p) /\ ~IsNull(proc[p].pre)
        /\ DOMAIN reports = 1..(nextReport - 1)
        /\ \A r \in DOMAIN reports : reports[r].status = "approved"
        /\ \A z \in DOMAIN Pre(p).zones :
             /\ Pre(p).zones[z].updatedAt = 0
             /\ Pre(p).zones[z].reportCount = 1
             /\ Pre(p).zones[z].name # ManualZoneName
        /\ \E z \in DOMAIN Pre(p).zones :
             /\ Pre(p).zones[z].reportCount # TrueCount(Pre(p).zones[z])
             /\ zones[z].reportCount # Pre(p).zones[z].reportCount

\* C22: a step that takes a report with coordinates to status approved is the
\* status write of an approval, which goes on to createOrUpdateZone; a step
\* that gives a report any other status leaves the zones table alone.
C22_OnlyApproveAggregates ==
    [][ \A r \in DOMAIN reports \cap DOMAIN reports' :
          /\ ( /\ ~IsNull(reports[r].latitude) /\ ~IsNull(reports[r].longitude)
               /\ reports[r].status # "approved"
               /\ reports'[r].status = "approved" )
             => \E p \in Procs :
                   /\ proc[p].pc = "approve_update" /\ proc[p].id = r
                   /\ proc'[p].pc = "approve_scan"
          /\ ( /\ reports'[r].status # reports[r].status
               /\ reports'[r].status # "approved" )
             => zones' = zones ]_vars

\* C23: a request in which a storage call threw makes no further storage
\* call and, once answered, has answered 500.
C23_StoreFailureSurfaces ==
    \A p \in Procs :
        proc[p].threw =>
            /\ proc[p].pc \in { "thrown", "done" }
            /\ proc[p].pc = "done" => proc[p].resp.status = 500

\* An approval has been answered whose createOrUpdateZone threw after the
\* report was marked approved.
C23_Witness ==
    \E p \in Procs :
        /\ DoneApprove(p) /\ proc[p].threw
        /\ proc[p].id \in DOMAIN reports
        /\ reports[proc[p].id].status = "approved"
        /\ proc[p].resp.status = 500

\* C24: with requests handled one at a time and zones created only by
\* createOrUpdateZone, no step adds a zone whose centre is strictly less than
\* 0.005 on both axes from a zone that already exists.
C24_MergeCreatesApart ==
    [][ \A z \in DOMAIN zones' \ DOMAIN zones :
          \A y \in DOMAIN zones :
             ~StrictlyNear(zones[y], zones'[z].latitude, zones'[z].longitude) ]_vars

\* Approvals have created two zones whose centres are exactly 0.005 apart
\* on both axes.
C24_Witness ==
    \E z1, z2 \in DOMAIN zones :
        /\ z1 # z2
        /\ zones[z1].name # ManualZoneName /\ zones[z2].name # ManualZoneName
        /\ Abs(zones[z1].latitude - zones[z2].latitude) = MergeThreshold
        /\ Abs(zones[z1].longitude - zones[z2].longitude) = MergeThreshold

\* C25: the approval of a report with coordinates that is already approved
\* leaves the reportCount of every zone as it found it.
C25_ReapprovalKeepsCounts ==
    \A p \in Procs :
        ( /\ DoneApprove(p) /\ ~IsNull(proc[p].pre)
          /\ proc[p].id \in DOMAIN Pre(p).reports
          /\ Pre(p).reports[proc[p].id].status = "approved"
          /\ ~IsNull(Pre(p).reports[proc[p].id].latitude)
          /\ ~IsNull(Pre(p).reports[proc[p].id].longitude) )
        => \A z \in DOMAIN Pre(p).zones :
              /\ z \in DOMAIN zones
              /\ zones[z].reportCount = Pre(p).zones[z].reportCount

\* The step of a recompute that writes the count of the zone it has counted.
RecomputeWriteStep(p) == proc[p].pc = "list_write" /\ proc'[p].pc # "list_write"

RECURSIVE SumCounts(_)
SumCounts(ids) ==
    IF ids = {} THEN 0
    ELSE LET z == CHOOSE x \in ids : TRUE
         IN  zones[z].reportCount + SumCounts(ids \ {z})

\* The approved reports that carry both coordinates.
ApprovedWithCoords ==
    { r \in DOMAIN reports :
        /\ reports[r].status = "approved"
        /\ ~IsNull(reports[r].latitude)
        /\ ~IsNull(reports[r].longitude) }

\* C27: when a recompute has returned, the zones' counts add up to at most the
\* number of approved reports that carry coordinates (every report is counted
\* in at most one zone).
C27_CountedInOneZone ==
    \A p \in Procs :
        DoneList(p) => SumCounts(DOMAIN zones) <= Cardinality(ApprovedWithCoords)

\* The ids of the rows of a zone list.
ListIds(list) == { list[i].id : i \in DOMAIN list }

\* C28: no step brings back a zone that was deleted, a count write for a zone
\* whose row is gone changes no row, and the list a recompute returns holds
\* only zones that are in the store.
C28_DeletedZoneStaysDeleted ==
    [][ /\ \A z \in 1..(nextZone - 1) : z \notin DOMAIN zones => z \notin DOMAIN zones'
        /\ \A p \in Procs :
             /\ ( RecomputeWriteStep(p) /\ Val(proc[p].cur).id \notin DOMAIN zones )
                  => zones' = zones
             /\ ( proc[p].pc = "list_return" /\ DoneList(p)' )
                  => ListIds(proc'[p].resp.zones) = DOMAIN zones' ]_vars

\* A recompute has returned after writing the count of a zone that was
\* deleted once the recompute had loaded it.
C28_Witness ==
    \E p \in Procs :
        /\ DoneList(p)
        /\ \E z \in proc[p].missed :
             /\ z \in DOMAIN Pre(p).zones
             /\ z \notin DOMAIN zones
             /\ z \notin ListIds(proc[p].resp.zones)

\* C29: once Cancel has been pressed while the countdown ran, no timer is
\* pending, countdown is 3, isCountingDown is false, and the countdown has
\* made no call of triggerEmergency.
C29_CancelStopsCountdown ==
    modal.cancelled =>
        /\ ~modal.timer
        /\ modal.countdown = 3
        /\ ~modal.isCountingDown
        /\ modal.byCountdown = 0

\* Cancel was pressed while the countdown ran and the modal is gone, with
\* no call of triggerEmergency made.
C29_Witness ==
    /\ modal.cancelled
    /\ ~modal.mounted
    /\ modal.fired = 0

\* C30: triggerEmergency runs at most once after a startCountdown.
C30_TriggersOncePerActivation == modal.fired <= 1

====
